---- MODULE Spec2Model ----
(***************************************************************************)
(* small::basic_small_string (include/smallstring.hpp): the 8-byte tagged  *)
(* core, the buffer header, the buffer-size selector and the buffer        *)
(* manager, with the string operations that drive them.                    *)
(*                                                                         *)
(* Bytes are modelled run-length encoded: a byte array is a sequence of    *)
(* runs <<b, n>> (n > 0 copies of byte b, adjacent runs differ in b).      *)
(* Byte 0 is '\0'; Indet is a byte of a fresh allocation nobody wrote.     *)
(***************************************************************************)
EXTENDS Integers, Sequences, FiniteSets, TLC

VARIABLES
    NullTerminated, \* the NullTerminated template argument of the string type
    strs,           \* the string objects: name -> [live, core]
    heap,           \* the allocations made so far, indexed by pointer
    fault,          \* "none", or the undefined behaviour / abort that ended the run
    steps,          \* operations executed so far
    last            \* the operation that produced this state, with what it saw before

vars == <<NullTerminated, strs, heap, fault, steps, last>>

(* ------------------------------ bounds --------------------------------- *)
MaxSteps == 3

(* --------------------------- byte arrays ------------------------------- *)
Indet == 0 - 1

RFill(b, n) == IF n <= 0 THEN << >> ELSE << <<b, n>> >>

RECURSIVE RLen(_)
RLen(r) == IF r = << >> THEN 0 ELSE r[1][2] + RLen(Tail(r))

RCat(r1, r2) ==
    IF r1 = << >> THEN r2
    ELSE IF r2 = << >> THEN r1
    ELSE IF r1[Len(r1)][1] = r2[1][1]
         THEN SubSeq(r1, 1, Len(r1) - 1)
              \o << <<r2[1][1], r1[Len(r1)][2] + r2[1][2]>> >>
              \o Tail(r2)
         ELSE r1 \o r2

RECURSIVE RTake(_, _)
RTake(r, n) ==
    IF n <= 0 \/ r = << >> THEN << >>
    ELSE IF r[1][2] >= n THEN << <<r[1][1], n>> >>
    ELSE << r[1] >> \o RTake(Tail(r), n - r[1][2])

RECURSIVE RDrop(_, _)
RDrop(r, n) ==
    IF r = << >> THEN << >>
    ELSE IF n <= 0 THEN r
    ELSE IF r[1][2] > n THEN << <<r[1][1], r[1][2] - n>> >> \o Tail(r)
    ELSE RDrop(Tail(r), n - r[1][2])

RSlice(r, pos, n) == RTake(RDrop(r, pos), n)

RECURSIVE RAt(_, _)
RAt(r, i) ==
    IF r = << >> THEN Indet
    ELSE IF i < r[1][2] THEN r[1][1]
    ELSE RAt(Tail(r), i - r[1][2])

\* memcpy / memset / memmove of the bytes d to offset pos of the array r
RWrite(r, pos, d) ==
    RCat(RCat(RTake(r, pos), d), RDrop(r, pos + RLen(d)))

(* --------------------------- the selector ------------------------------ *)
kIsInternal == 0
kIsShort == 1
kIsMedian == 2
kIsLong == 3

AlignUpTo8(n) == ((n + 7) \div 8) * 8

sizeof_capacity_and_size == 8

internal_buffer_size == IF NullTerminated THEN 6 ELSE 7

median_long_buffer_header_size ==
    IF NullTerminated THEN sizeof_capacity_and_size + 1 ELSE sizeof_capacity_and_size

max_short_buffer_size == IF NullTerminated THEN 255 ELSE 256

max_median_buffer_size == 16383

\* uint8_t cap : 5, uint16_t size : 9, uint16_t idle_or_ignore : 14
Bits5(n) == n % 32
Bits9(n) == n % 512
Bits14(n) == n % 16384

\* faulty variant: the selector forgets the Median/Long header
calculate_new_buffer_size_headerless(size) ==
    IF size <= internal_buffer_size
    THEN [buffer_size |-> internal_buffer_size, core_type |-> kIsInternal]
    ELSE IF size <= max_short_buffer_size
    THEN [buffer_size |-> AlignUpTo8(IF NullTerminated THEN size + 1 ELSE size),
          core_type |-> kIsShort]
    ELSE IF size <= max_median_buffer_size
    THEN [buffer_size |-> AlignUpTo8(size), core_type |-> kIsMedian]
    ELSE [buffer_size |-> AlignUpTo8(size), core_type |-> kIsLong]

\* faulty variant: a size equal to a tier's limit goes to the next tier
calculate_new_buffer_size_exclusive(size) ==
    IF size < internal_buffer_size
    THEN [buffer_size |-> internal_buffer_size, core_type |-> kIsInternal]
    ELSE IF size < max_short_buffer_size
    THEN [buffer_size |-> AlignUpTo8(IF NullTerminated THEN size + 1 ELSE size),
          core_type |-> kIsShort]
    ELSE IF size < max_median_buffer_size
    THEN [buffer_size |-> AlignUpTo8(size + median_long_buffer_header_size),
          core_type |-> kIsMedian]
    ELSE [buffer_size |-> AlignUpTo8(size + median_long_buffer_header_size),
          core_type |-> kIsLong]

calculate_new_buffer_size(size) ==
    IF size <= internal_buffer_size
    THEN [buffer_size |-> internal_buffer_size, core_type |-> kIsInternal]
    ELSE IF size <= max_short_buffer_size
    THEN [buffer_size |-> AlignUpTo8(IF NullTerminated THEN size + 1 ELSE size),
          core_type |-> kIsShort]
    ELSE IF size <= max_median_buffer_size
    THEN [buffer_size |-> AlignUpTo8(size + median_long_buffer_header_size),
          core_type |-> kIsMedian]
    ELSE [buffer_size |-> AlignUpTo8(size + median_long_buffer_header_size),
          core_type |-> kIsLong]

\* size * Growth with Growth = 1.5F, converted back to size_t (truncation)
calculate_new_buffer_size_growth(size) ==
    calculate_new_buffer_size((size * 3) \div 2)

(* ------------------------ core storage and heap ------------------------ *)
\* malloc_core{body = 0}: Internal, size 0, seven zero bytes
ZeroCore ==
    [flag |-> kIsInternal, isize |-> 0, idata |-> RFill(0, 7),
     ptr |-> 0, cap |-> 0, size |-> 0, idle |-> 0]

\* one allocation: bsize bytes were asked for; Median/Long blocks keep the
\* capacity_and_size header (hcap, hsize) in front of the bytes
\* arena is the memory resource the block came from (0: std::malloc)
FreshBlock(bsize, header) ==
    [live |-> TRUE, bsize |-> bsize, hcap |-> Indet, hsize |-> Indet,
     bytes |-> RFill(Indet, bsize - header), frees |-> 0, arena |-> 0]

\* a cell is one string's core together with the heap and the fault flag
Cell(c, h, f) == [c |-> c, h |-> h, f |-> f]

Raise(x, what) == IF x.f = "none" THEN [x EXCEPT !.f = what] ELSE x

\* std::free / pmr deallocate of the block at p
Free(x, p) ==
    IF x.h[p].live
    THEN [x EXCEPT !.h[p].live = FALSE, !.h[p].frees = @ + 1, !.h[p].bytes = << >>]
    ELSE Raise([x EXCEPT !.h[p].frees = @ + 1], "double_free")

is_external(c) == c.flag # 0

capacity_from_buffer_header(c, h) == h[c.ptr].hcap

size_from_buffer_header(c, h) == h[c.ptr].hsize

get_idle_capacity_from_buffer_header(c, h) ==
    h[c.ptr].hcap - h[c.ptr].hsize - (IF NullTerminated THEN 1 ELSE 0)
        - sizeof_capacity_and_size

idle_capacity(c, h) ==
    CASE c.flag = 0 -> internal_buffer_size - c.isize
      [] c.flag = 1 -> (c.cap + 1) * 8 - c.size - (IF NullTerminated THEN 1 ELSE 0)
      [] c.flag = 2 -> c.idle
      [] c.flag = 3 -> get_idle_capacity_from_buffer_header(c, h)

capacity(c, h) ==
    CASE c.flag = 0 -> internal_buffer_size
      [] c.flag = 1 -> (c.cap + 1) * 8 - (IF NullTerminated THEN 1 ELSE 0)
      [] OTHER -> capacity_from_buffer_header(c, h)
                    - (IF NullTerminated THEN 1 ELSE 0) - sizeof_capacity_and_size

size(c, h) ==
    CASE c.flag = 0 -> c.isize
      [] c.flag = 1 -> c.size
      [] OTHER -> size_from_buffer_header(c, h)

\* the bytes begin_ptr() points at, up to the end of the owning object/block
Bytes(c, h) == IF is_external(c) THEN h[c.ptr].bytes ELSE c.idata

\* the string's characters, [data(), data() + size())
Content(c, h) == RTake(Bytes(c, h), size(c, h))

\* store the bytes d at begin_ptr() + pos
Put(x, pos, d) ==
    IF d = << >> THEN x
    ELSE IF pos + RLen(d) > RLen(Bytes(x.c, x.h)) THEN Raise(x, "overflow")
    ELSE IF is_external(x.c)
    THEN [x EXCEPT !.h[x.c.ptr].bytes = RWrite(@, pos, d)]
    ELSE [x EXCEPT !.c.idata = RWrite(@, pos, d)]

\* faulty variant: the terminator is never stored
PutTerm_skipped(x, pos) == x

PutTerm(x, pos) == IF NullTerminated THEN Put(x, pos, RFill(0, 1)) ELSE x

set_size_and_idle_and_set_term(x, new_size) ==
    CASE x.c.flag = 0 -> PutTerm([x EXCEPT !.c.isize = new_size % 64], new_size % 64)
      [] x.c.flag = 1 -> PutTerm([x EXCEPT !.c.size = Bits9(new_size)], new_size)
      [] x.c.flag = 2 ->
            LET y == [x EXCEPT !.h[x.c.ptr].hsize = new_size]
            IN  PutTerm([y EXCEPT !.c.idle =
                            Bits14(get_idle_capacity_from_buffer_header(y.c, y.h))],
                        new_size)
      [] x.c.flag = 3 -> PutTerm([x EXCEPT !.h[x.c.ptr].hsize = new_size], new_size)

increase_size_and_idle_and_set_term(x, d) ==
    CASE x.c.flag = 0 ->
            LET y == [x EXCEPT !.c.isize = (@ + d) % 64] IN PutTerm(y, y.c.isize)
      [] x.c.flag = 1 ->
            LET y == [x EXCEPT !.c.size = Bits9(@ + d)] IN PutTerm(y, y.c.size)
      [] x.c.flag = 2 ->
            LET y == [x EXCEPT !.c.idle = Bits14(@ - d), !.h[x.c.ptr].hsize = @ + d]
            IN  PutTerm(y, y.h[y.c.ptr].hsize)
      [] x.c.flag = 3 ->
            LET y == [x EXCEPT !.h[x.c.ptr].hsize = @ + d]
            IN  PutTerm(y, y.h[y.c.ptr].hsize)

decrease_size_and_idle_and_set_term(x, d) ==
    CASE x.c.flag = 0 ->
            LET y == [x EXCEPT !.c.isize = (@ - d) % 64] IN PutTerm(y, y.c.isize)
      [] x.c.flag = 1 ->
            LET y == [x EXCEPT !.c.size = Bits9(@ - d)] IN PutTerm(y, y.c.size)
      [] x.c.flag = 2 ->
            LET y == [x EXCEPT !.c.idle = Bits14(@ + d), !.h[x.c.ptr].hsize = @ - d]
            IN  PutTerm(y, y.h[y.c.ptr].hsize)
      [] x.c.flag = 3 ->
            LET y == [x EXCEPT !.h[x.c.ptr].hsize = @ - d]
            IN  PutTerm(y, y.h[y.c.ptr].hsize)

(* --------------------------- buffer manager ---------------------------- *)
\* malloc(n) (or allocator.allocate(n)): the new block gets the next pointer
Malloc(h, bsize, header) == Append(h, FreshBlock(bsize, header))

\* Returns [h, ne, ok]: the heap after the allocation and the new external_core.
\* CoreType::Internal is Assert(false) followed by __builtin_unreachable():
\* with assertions on (ndebug = FALSE) the process aborts, ok = FALSE; with
\* NDEBUG the switch has no code for the case and control runs into the
\* next one, CoreType::Short.
allocate_new_external_buffer(h, tas, old_str_size, ndebug) ==
    CASE tas.core_type = kIsInternal /\ ~ndebug ->
            [h |-> h, ne |-> ZeroCore, ok |-> FALSE]
      [] tas.core_type = kIsInternal \/ tas.core_type = kIsShort ->
            [h |-> Malloc(h, tas.buffer_size, 0),
             ne |-> [flag |-> kIsShort, isize |-> 0, idata |-> << >>,
                     ptr |-> Len(h) + 1,
                     cap |-> Bits5((tas.buffer_size \div 8) - 1),
                     size |-> Bits9(old_str_size), idle |-> 0],
             ok |-> TRUE]
      [] tas.core_type = kIsMedian ->
            [h |-> [Malloc(h, tas.buffer_size, sizeof_capacity_and_size)
                        EXCEPT ![Len(h) + 1].hcap = tas.buffer_size,
                               ![Len(h) + 1].hsize = old_str_size],
             ne |-> [flag |-> kIsMedian, isize |-> 0, idata |-> << >>,
                     ptr |-> Len(h) + 1, cap |-> 0, size |-> 0,
                     idle |-> Bits14(tas.buffer_size - sizeof_capacity_and_size
                                       - (IF NullTerminated THEN 1 ELSE 0)
                                       - old_str_size)],
             ok |-> TRUE]
      [] tas.core_type = kIsLong ->
            [h |-> [Malloc(h, tas.buffer_size, sizeof_capacity_and_size)
                        EXCEPT ![Len(h) + 1].hcap = tas.buffer_size,
                               ![Len(h) + 1].hsize = old_str_size],
             ne |-> [flag |-> kIsLong, isize |-> 0, idata |-> << >>,
                     ptr |-> Len(h) + 1, cap |-> 0, size |-> 0, idle |-> 0],
             ok |-> TRUE]

\* initial_allocate(cap_and_type, size) on a freshly constructed (zero) core
initial_allocate_as(h, f, tas, sz) ==
    IF tas.core_type = kIsInternal
    THEN PutTerm(Cell([ZeroCore EXCEPT !.isize = sz % 64], h, f), sz)
    ELSE LET a == allocate_new_external_buffer(h, tas, sz, TRUE)
         IN  PutTerm(Cell(a.ne, a.h, f), sz)

initial_allocate(h, f, new_string_size) ==
    initial_allocate_as(h, f, calculate_new_buffer_size(new_string_size), new_string_size)

\* replace the core by new_external after copying/terminating and freeing
\* faulty variant: the old bytes are not copied into the new buffer
InstallExternal_without_copy(x, a, old_size, copy, term) ==
    LET n0 == Cell(a.ne, a.h, x.f)
        n2 == IF term THEN PutTerm(n0, old_size) ELSE n0
    IN  IF is_external(x.c) THEN Free(n2, x.c.ptr) ELSE n2

InstallExternal(x, a, old_size, copy, term) ==
    LET n0 == Cell(a.ne, a.h, x.f)
        n1 == IF copy THEN Put(n0, 0, RTake(Bytes(x.c, x.h), old_size)) ELSE n0
        n2 == IF term THEN PutTerm(n1, old_size) ELSE n1
    IN  IF is_external(x.c) THEN Free(n2, x.c.ptr) ELSE n2

\* faulty variant: appending never reallocates
allocate_more_never_grows(x, new_append_size, term, ndebug) == x

\* faulty variant: appending reallocates even when the bytes fit
allocate_more_always_grows(x, new_append_size, term, ndebug) ==
    LET old_size == size(x.c, x.h)
        a == allocate_new_external_buffer(
                 x.h, calculate_new_buffer_size_growth(old_size + new_append_size),
                 old_size, ndebug)
    IN  IF ~a.ok THEN Raise(x, "assert_internal_alloc")
        ELSE InstallExternal(x, a, old_size, TRUE, term)

allocate_more(x, new_append_size, term, ndebug) ==
    IF idle_capacity(x.c, x.h) >= new_append_size THEN x
    ELSE LET old_size == size(x.c, x.h)
             a == allocate_new_external_buffer(
                      x.h, calculate_new_buffer_size_growth(old_size + new_append_size),
                      old_size, ndebug)
         IN  IF ~a.ok THEN Raise(x, "assert_internal_alloc")
             ELSE LET y == InstallExternal(x, a, old_size, TRUE, term)
                  IN  IF calculate_new_buffer_size_growth(old_size + new_append_size).core_type
                            = kIsInternal
                      THEN Raise(y, "unreachable_internal_alloc")
                      ELSE y

\* faulty variant: reserve applies the growth multiplier
buffer_reserve_with_growth(x, new_cap, term, need_copy, ndebug) ==
    IF new_cap > capacity(x.c, x.h)
    THEN LET old_size == size(x.c, x.h)
             a == allocate_new_external_buffer(
                      x.h, calculate_new_buffer_size_growth(new_cap), old_size, ndebug)
         IN  IF ~a.ok THEN Raise(x, "assert_internal_alloc")
             ELSE InstallExternal(x, a, old_size, need_copy, term /\ need_copy)
    ELSE x

buffer_reserve(x, new_cap, term, need_copy, ndebug) ==
    IF new_cap > capacity(x.c, x.h)
    THEN LET old_size == size(x.c, x.h)
             a == allocate_new_external_buffer(
                      x.h, calculate_new_buffer_size(new_cap), old_size, ndebug)
         IN  IF ~a.ok THEN Raise(x, "assert_internal_alloc")
             ELSE InstallExternal(x, a, old_size, need_copy, term /\ need_copy)
    ELSE x

\* faulty variant: the destructor forgets the buffer
Destroy_leaking(x) == x

\* ~small_string_buffer
Destroy(x) == IF is_external(x.c) THEN Free(x, x.c.ptr) ELSE x

(* -------------------------- string operations -------------------------- *)
\* an Assert that fired: the process is gone, nothing after it executes
Stopped(x) == x.f = "assert_internal_alloc"

Min(a, b) == IF a < b THEN a ELSE b

\* basic_small_string(size_t count, Char ch)
construct_fill(h, f, count, ch) ==
    Put(initial_allocate(h, f, count), 0, RFill(ch, count))

push_back(x, ch, ndebug) ==
    LET y == allocate_more(x, 1, FALSE, ndebug)
    IN  IF Stopped(y) THEN y
        ELSE increase_size_and_idle_and_set_term(
                 Put(y, size(y.c, y.h), RFill(ch, 1)), 1)

\* append(size_type count, Char c)
append_fill(x, count, ch, ndebug) ==
    IF count = 0 THEN x
    ELSE LET y == allocate_more(x, count, FALSE, ndebug)
         IN  IF Stopped(y) THEN y
             ELSE increase_size_and_idle_and_set_term(
                      Put(y, size(y.c, y.h), RFill(ch, count)), count)

\* insert(size_type index, size_type count, Char ch)
insert_fill(x, index, count, ch, ndebug) ==
    IF count = 0 THEN x
    ELSE IF index > size(x.c, x.h) THEN Raise(x, "out_of_range")
    ELSE LET y == allocate_more(x, count, FALSE, ndebug)
             old_size == size(y.c, y.h)
             moved == IF index < old_size
                      THEN Put(y, index + count,
                               RSlice(Bytes(y.c, y.h), index, old_size - index))
                      ELSE y
         IN  IF Stopped(y) THEN y
             ELSE increase_size_and_idle_and_set_term(
                      Put(moved, index, RFill(ch, count)), count)

\* data(): a pointer is a block and an offset; block 0 is the string object
\* itself, whose bytes hold an Internal string
data(c) == [blk |-> IF is_external(c) THEN c.ptr ELSE 0, off |-> 0]

\* what memcpy reads through the pointer src, taken before x became what it
\* is now: the bytes of a live block, the object's bytes (characters only
\* while the string is Internal), or nothing valid once the block is freed
Deref(x, src, count) ==
    IF src.blk = 0
    THEN [ok |-> TRUE,
          bytes |-> IF is_external(x.c) THEN RFill(Indet, count)
                    ELSE RSlice(x.c.idata, src.off, count)]
    ELSE IF x.h[src.blk].live
    THEN [ok |-> TRUE, bytes |-> RSlice(x.h[src.blk].bytes, src.off, count)]
    ELSE [ok |-> FALSE, bytes |-> RFill(Indet, count)]

\* append(const Char* s, size_type count) with s pointing into a string
append_ptr(x, src, count, ndebug) ==
    LET y == allocate_more(x, count, FALSE, ndebug)
        r == Deref(y, src, count)
    IN  IF count = 0 THEN x
        ELSE IF Stopped(y) THEN y
        ELSE IF ~r.ok THEN Raise(y, "use_after_free")
        ELSE increase_size_and_idle_and_set_term(Put(y, size(y.c, y.h), r.bytes), count)

\* s.append(s): other.data() and other.size() are read after the growth step
append_self(x, ndebug) ==
    LET y == allocate_more(x, size(x.c, x.h), FALSE, ndebug)
        other_size == size(y.c, y.h)
    IN  IF size(x.c, x.h) = 0 THEN x
        ELSE IF Stopped(y) THEN y
        ELSE increase_size_and_idle_and_set_term(
                 Put(y, size(y.c, y.h), Deref(y, data(y.c), other_size).bytes), other_size)

\* s.append(s, pos, count): other.data() + pos is taken before the growth step
append_self_range(x, pos, count0, ndebug) ==
    IF pos > size(x.c, x.h) THEN Raise(x, "out_of_range")
    ELSE IF count0 = 0 THEN x
    ELSE append_ptr(x, [data(x.c) EXCEPT !.off = pos],
                    Min(count0, size(x.c, x.h) - pos), ndebug)

\* insert(size_type index, const Char* str, size_type count) with str pointing
\* into a string
insert_ptr(x, index, src, count, ndebug) ==
    LET old_size == size(x.c, x.h)
        y == allocate_more(x, count, FALSE, ndebug)
        moved == IF index < old_size
                 THEN Put(y, index + count,
                          RSlice(Bytes(y.c, y.h), index, old_size - index))
                 ELSE y
        r == Deref(moved, src, count)
    IN  IF count = 0 THEN x
        ELSE IF index > old_size THEN Raise(x, "out_of_range")
        ELSE IF Stopped(y) THEN y
        ELSE IF ~r.ok THEN Raise(y, "use_after_free")
        ELSE increase_size_and_idle_and_set_term(Put(moved, index, r.bytes), count)

\* s.insert(index, s): insert(index, other.data(), other.size())
insert_self(x, index, ndebug) ==
    insert_ptr(x, index, data(x.c), size(x.c, x.h), ndebug)

\* insert(size_type index, const Char* str, size_type count); str holds count
\* bytes outside the string
insert_str(x, index, str, ndebug) ==
    LET count == RLen(str)
        old_size == size(x.c, x.h)
        y == allocate_more(x, count, FALSE, ndebug)
        moved == IF index < old_size
                 THEN Put(y, index + count,
                          RSlice(Bytes(y.c, y.h), index, old_size - index))
                 ELSE y
    IN  IF count = 0 THEN x
        ELSE IF index > old_size THEN Raise(x, "out_of_range")
        ELSE IF Stopped(y) THEN y
        ELSE increase_size_and_idle_and_set_term(Put(moved, index, str), count)

\* erase(size_type index, size_type count), index <= size()
erase(x, index, count) ==
    LET old_size == size(x.c, x.h)
        real_count == Min(count, old_size - index)
        new_size == old_size - real_count
        right_size == old_size - index - real_count
        moved == IF right_size > 0
                 THEN Put(x, index, RSlice(Bytes(x.c, x.h), index + real_count, right_size))
                 ELSE x
    IN  IF real_count = 0 THEN x
        ELSE set_size_and_idle_and_set_term(moved, new_size)

pop_back(x) == decrease_size_and_idle_and_set_term(x, 1)

clear(x) == set_size_and_idle_and_set_term(x, 0)

\* resize(size_type count, Char ch)
resize(x, count, ch, ndebug) ==
    LET cap == capacity(x.c, x.h)
        old_size == size(x.c, x.h)
        y == IF count > cap THEN buffer_reserve(x, count, FALSE, TRUE, ndebug) ELSE x
    IN  IF count <= old_size THEN set_size_and_idle_and_set_term(x, count)
        ELSE IF Stopped(y) THEN y
        ELSE set_size_and_idle_and_set_term(
                 Put(y, old_size, RFill(ch, count - old_size)), count)

reserve(x, new_cap, ndebug) == buffer_reserve(x, new_cap, TRUE, TRUE, ndebug)

\* assign(size_type count, Char ch)
assign_fill(x, count, ch, ndebug) ==
    LET y == buffer_reserve(x, count, FALSE, FALSE, ndebug)
    IN  IF Stopped(y) THEN y
        ELSE set_size_and_idle_and_set_term(Put(y, 0, RFill(ch, count)), count)

\* *this = std::move(gone), gone a temporary: ~basic_small_string() on the
\* target, then the move constructor takes gone's core and zeroes gone
move_from_temporary(x, gone_core) ==
    LET d == Destroy(x) IN Cell(gone_core, d.h, d.f)

\* faulty variant: the new buffer is swapped in without the characters
shrink_to_fit_without_copy(x) ==
    LET cap == capacity(x.c, x.h)
        sz == size(x.c, x.h)
        cap_and_type == calculate_new_buffer_size(sz)
        new_str == initial_allocate_as(x.h, x.f, cap_and_type, sz)
    IN  IF cap > cap_and_type.buffer_size
        THEN LET old == Destroy(Cell(x.c, new_str.h, new_str.f))
             IN  Cell(new_str.c, old.h, old.f)
        ELSE x

\* variant: the buffer's byte size, not capacity(), is compared with the
\* minimal buffer size
shrink_to_fit_by_buffer_size(x) ==
    LET buf == IF is_external(x.c) THEN x.h[x.c.ptr].bsize ELSE internal_buffer_size
        sz == size(x.c, x.h)
        cap_and_type == calculate_new_buffer_size(sz)
        new_str == Put(initial_allocate_as(x.h, x.f, cap_and_type, sz),
                       0, Content(x.c, x.h))
    IN  IF buf > cap_and_type.buffer_size
        THEN LET old == Destroy(Cell(x.c, new_str.h, new_str.f))
             IN  Cell(new_str.c, old.h, old.f)
        ELSE x

shrink_to_fit(x) ==
    LET cap == capacity(x.c, x.h)
        sz == size(x.c, x.h)
        cap_and_type == calculate_new_buffer_size(sz)
        new_str == Put(initial_allocate_as(x.h, x.f, cap_and_type, sz),
                       0, Content(x.c, x.h))
    IN  IF cap > cap_and_type.buffer_size
        THEN \* swap(new_str), then new_str's destructor releases the old core
             LET old == Destroy(Cell(x.c, new_str.h, new_str.f))
             IN  Cell(new_str.c, old.h, old.f)
        ELSE x

\* replace(size_type pos, size_type count, size_type count2, Char ch), pos <= size()
replace_fill(x, pos, count0, count2, ch) ==
    LET cap == capacity(x.c, x.h)
        old_size == size(x.c, x.h)
        count == Min(count0, old_size - pos)
        ret0 == initial_allocate(x.h, x.f, old_size - count + count2)
        ret1 == Put(ret0, 0, RTake(Bytes(x.c, x.h), pos))
        ret2 == Put(ret1, pos, RFill(ch, count2))
        ret3 == Put(ret2, pos + count2,
                    RSlice(Bytes(x.c, x.h), pos + count, old_size - pos - count))
    IN  IF count2 = 0 THEN erase(x, pos, count0)
        ELSE IF count >= old_size - pos /\ count2 <= cap - pos
        THEN set_size_and_idle_and_set_term(Put(x, pos, RFill(ch, count2)), pos + count2)
        ELSE IF count = count2
        THEN Put(x, pos, RFill(ch, count2))
        ELSE move_from_temporary(Cell(x.c, ret3.h, ret3.f), ret3.c)

\* replace(size_type pos, size_type count, const Char* str, size_type count2),
\* pos <= size(); str holds count2 bytes outside the string
replace_str(x, pos, count0, str) ==
    LET cap == capacity(x.c, x.h)
        old_size == size(x.c, x.h)
        count2 == RLen(str)
        count == Min(count0, old_size - pos)
        ret0 == initial_allocate(x.h, x.f, old_size - count + count2)
        ret1 == Put(ret0, 0, RTake(Bytes(x.c, x.h), pos))
        ret2 == Put(ret1, pos, str)
        ret3 == Put(ret2, pos + count2,
                    RSlice(Bytes(x.c, x.h), pos + count, old_size - pos - count))
    IN  IF count2 = 0 THEN erase(x, pos, count0)
        ELSE IF count >= old_size - pos /\ count2 <= cap - pos
        THEN set_size_and_idle_and_set_term(Put(x, pos, str), pos + count2)
        ELSE IF count = count2
        THEN Put(x, pos, str)
        ELSE move_from_temporary(Cell(x.c, ret3.h, ret3.f), ret3.c)

\* the count bytes at view.data() + off; bytes past the end of the view are
\* whatever lies behind it
ViewRead(view, off, count) ==
    RCat(RSlice(view, off, count), RFill(Indet, count - RLen(RSlice(view, off, count))))

\* replace(size_type pos, size_type count, const StringViewLike& view,
\* size_type pos2, size_type count2), pos <= size(): the characters are taken
\* at view.data() + pos
replace_view(x, pos, count0, view, pos2, count2) ==
    replace_str(x, pos, count0, ViewRead(view, pos, count2))

(* ------------------------------ the program ---------------------------- *)
Strings == {"a", "b"}

\* characters used as fill bytes
\* the character a string is built from, and the one operations write
FillChars == <<1, 2>>
ChX == FillChars[1]
ChY == FillChars[2]

InitLens == {0, 5, 8, 300, 16380, 20000}
AppendCounts == {6, 300}
InsertIndexes == {0, 2}
EraseArgs == {<<0, 1>>, <<1, 30000>>}
ResizeCounts == {3, 260}
ReserveCaps == {100, 311, 16380, 20000}
AssignCounts == {5, 16380}
ReplaceArgs == {<<0, 2, 1>>, <<1, 1, 1>>, <<1, 30000, 2>>}
ReplaceStrArgs == {<<0, 2, << <<3, 1>> >> >>, <<2, 30000, << <<3, 1>>, <<4, 1>> >> >>}

\* what a caller can observe of a string
Obs(c, h) ==
    [tier |-> c.flag, cap |-> capacity(c, h), size |-> size(c, h),
     idle |-> idle_capacity(c, h), content |-> Content(c, h), ptr |-> c.ptr,
     buf |-> IF is_external(c) THEN h[c.ptr].bsize ELSE internal_buffer_size]

\* the allocations made and the blocks given back so far
Mem(h) == [allocs |-> Len(h), frees |-> Cardinality({p \in DOMAIN h : ~h[p].live})]

\* the further arguments of an operation that has them: a position and the
\* bytes passed in
NoArg == [index |-> 0, bytes |-> << >>]

NoOp ==
    [op |-> "init", s |-> "a", n |-> 0, pre |-> Obs(ZeroCore, << >>),
     other |-> Obs(ZeroCore, << >>), mem |-> Mem(<< >>), al |-> 0, arg |-> NoArg]

Other(s) == CHOOSE t \in Strings : t # s

\* what was observable before an operation on s: s itself, the other string
\* (an empty observation when it is not alive), the heap counters and s's
\* allocator
Before(op, s, n) ==
    [op |-> op, s |-> s, n |-> n,
     pre |-> IF strs[s].live THEN Obs(strs[s].core, heap) ELSE Obs(ZeroCore, << >>),
     other |-> IF strs[Other(s)].live THEN Obs(strs[Other(s)].core, heap)
               ELSE Obs(ZeroCore, << >>),
     mem |-> Mem(heap), al |-> strs[s].alloc, arg |-> NoArg]

\* get_allocator(): 0 is std::allocator, anything else a pmr memory resource
get_allocator(s) == strs[s].alloc

RECURSIVE StampFrom(_, _, _)
StampFrom(h, p, al) ==
    IF p > Len(h) THEN h ELSE StampFrom([h EXCEPT ![p].arena = al], p + 1, al)

\* An operation of a string whose allocator is al ran from heap h0 to cell x:
\* the blocks it obtained came from al, and the blocks it gave back went to
\* al; giving a block back to a resource it did not come from is undefined.
Settle(h0, x, al) ==
    [h |-> StampFrom(x.h, Len(h0) + 1, al),
     f |-> IF x.f = "none"
              /\ \E p \in DOMAIN h0 : h0[p].live /\ ~x.h[p].live /\ h0[p].arena # al
           THEN "foreign_deallocate" ELSE x.f]

Init ==
    /\ NullTerminated \in BOOLEAN
    /\ \E len \in InitLens :
         LET x == construct_fill(<< >>, "none", len, ChX)
         IN  /\ strs = [s \in Strings |->
                          [live |-> TRUE, core |-> IF s = "a" THEN x.c ELSE ZeroCore,
                           alloc |-> 0]]
             /\ heap = x.h
             /\ fault = x.f
    /\ steps = 0
    /\ last = NoOp

Running == fault = "none" /\ steps < MaxSteps /\ \A s \in Strings : strs[s].live

CellOf(s) == Cell(strs[s].core, heap, fault)

\* One operation on string s. xd is the result with assertions enabled and xr
\* the result under NDEBUG; they differ only when an assertion fires.
StepWith(s, op, n, arg, xd, xr) ==
    /\ Running
    /\ \E x \in (IF Stopped(xd) THEN {xd, xr} ELSE {xd}) :
         /\ strs' = [strs EXCEPT ![s].core = x.c]
         /\ heap' = Settle(heap, x, strs[s].alloc).h
         /\ fault' = Settle(heap, x, strs[s].alloc).f
    /\ steps' = steps + 1
    /\ last' = [Before(op, s, n) EXCEPT !.arg = arg]
    /\ UNCHANGED NullTerminated

Step(s, op, n, xd, xr) == StepWith(s, op, n, NoArg, xd, xr)

PushBack(s) ==
    Step(s, "push_back", 1,
         push_back(CellOf(s), ChY, FALSE), push_back(CellOf(s), ChY, TRUE))

AppendFill(s) ==
    \E n \in AppendCounts :
        Step(s, "append", n,
             append_fill(CellOf(s), n, ChY, FALSE), append_fill(CellOf(s), n, ChY, TRUE))

InsertFill(s) ==
    \E i \in InsertIndexes :
        /\ i <= size(strs[s].core, heap)
        /\ Step(s, "insert", 1,
                insert_fill(CellOf(s), i, 1, ChY, FALSE),
                insert_fill(CellOf(s), i, 1, ChY, TRUE))

Erase(s) ==
    \E a \in EraseArgs :
        /\ a[1] <= size(strs[s].core, heap)
        /\ Step(s, "erase", a[2], erase(CellOf(s), a[1], a[2]), erase(CellOf(s), a[1], a[2]))

PopBack(s) ==
    /\ size(strs[s].core, heap) > 0
    /\ Step(s, "pop_back", 1, pop_back(CellOf(s)), pop_back(CellOf(s)))

Clear(s) == Step(s, "clear", 0, clear(CellOf(s)), clear(CellOf(s)))

Resize(s) ==
    \E n \in ResizeCounts :
        Step(s, IF n > size(strs[s].core, heap) THEN "resize_up" ELSE "resize_down", n,
             resize(CellOf(s), n, ChY, FALSE), resize(CellOf(s), n, ChY, TRUE))

Reserve(s) ==
    \E n \in ReserveCaps :
        Step(s, "reserve", n, reserve(CellOf(s), n, FALSE), reserve(CellOf(s), n, TRUE))

ShrinkToFit(s) ==
    Step(s, "shrink_to_fit", 0, shrink_to_fit(CellOf(s)), shrink_to_fit(CellOf(s)))

AssignFill(s) ==
    \E n \in AssignCounts :
        Step(s, "assign", n,
             assign_fill(CellOf(s), n, ChY, FALSE), assign_fill(CellOf(s), n, ChY, TRUE))

ReplaceFill(s) ==
    \E a \in ReplaceArgs :
        /\ a[1] <= size(strs[s].core, heap)
        /\ Step(s, "replace", a[3],
                replace_fill(CellOf(s), a[1], a[2], a[3], ChY),
                replace_fill(CellOf(s), a[1], a[2], a[3], ChY))

ReplaceStr(s) ==
    \E a \in ReplaceStrArgs :
        /\ a[1] <= size(strs[s].core, heap)
        /\ Step(s, "replace", RLen(a[3]),
                replace_str(CellOf(s), a[1], a[2], a[3]),
                replace_str(CellOf(s), a[1], a[2], a[3]))

\* faulty variant: the source keeps its storage word
move_construct_keeps_source(st, dst, src) ==
    [st EXCEPT ![dst].core = st[src].core, ![dst].alloc = st[src].alloc]

\* basic_small_string(basic_small_string&& other, const Allocator&): the
\* core's move constructor takes the storage word and other's allocator, and
\* zeroes other's storage word; the allocator argument is not used
move_construct(st, dst, src) ==
    [st EXCEPT ![dst].core = st[src].core, ![dst].alloc = st[src].alloc,
               ![src].core = ZeroCore]

\* dst = std::move(src): operator=(basic_small_string&&)
MoveAssign(dst, src) ==
    /\ Running
    /\ dst # src
    /\ LET d == Settle(heap, Destroy(CellOf(dst)), strs[dst].alloc)
       IN  /\ strs' = move_construct(strs, dst, src)
           /\ heap' = d.h
           /\ fault' = d.f
    /\ steps' = steps + 1
    /\ last' = Before("move_assign", dst, 0)
    /\ UNCHANGED NullTerminated

\* faulty variant: only one of the two storage words is written
swap_cores_one_way(st, dst, src) == [st EXCEPT ![dst].core = st[src].core]

\* malloc_core::swap: the two storage words change places
swap_cores(st, dst, src) ==
    [st EXCEPT ![dst].core = st[src].core, ![src].core = st[dst].core]

\* what pmr_core::swap can do: with equal resources (and for malloc_core) it
\* swaps; with different resources the Assert aborts, and a build with NDEBUG
\* has no Assert and swaps
swap_outcomes(st, dst, src) ==
    IF st[dst].alloc = st[src].alloc THEN {"swap"} ELSE {"abort", "swap"}

\* dst.swap(src)
Swap(dst, src) ==
    /\ Running
    /\ dst # src
    /\ \E o \in swap_outcomes(strs, dst, src) :
         /\ strs' = IF o = "swap" THEN swap_cores(strs, dst, src) ELSE strs
         /\ fault' = IF o = "swap" THEN fault ELSE "assert_swap_allocator"
    /\ steps' = steps + 1
    /\ last' = Before("swap", dst, 0)
    /\ UNCHANGED <<NullTerminated, heap>>

\* faulty variant: the copy takes the source's storage word, sharing its buffer
copy_assign_shallow(x, src_core, ndebug) == Cell(src_core, x.h, x.f)

\* dst = src: operator=(const basic_small_string&) is assign(src.data(), src.size())
copy_assign(x, src_core, ndebug) ==
    LET count == size(src_core, x.h)
        s == Content(src_core, x.h)
        y == buffer_reserve(x, count, FALSE, FALSE, ndebug)
    IN  IF Stopped(y) THEN y
        ELSE set_size_and_idle_and_set_term(Put(y, 0, s), count)

CopyAssign(dst, src) ==
    /\ dst # src
    /\ Step(dst, "copy_assign", size(strs[src].core, heap),
            copy_assign(CellOf(dst), strs[src].core, FALSE),
            copy_assign(CellOf(dst), strs[src].core, TRUE))

\* the strings go out of scope in reverse order of construction
Destruct(s) ==
    /\ fault = "none"
    /\ strs[s].live
    /\ s = "a" => ~strs["b"].live
    /\ LET d == Settle(heap, Destroy(CellOf(s)), strs[s].alloc)
       IN  /\ strs' = [strs EXCEPT ![s].live = FALSE]
           /\ heap' = d.h
           /\ fault' = d.f
    /\ last' = Before("destroy", s, 0)
    /\ UNCHANGED <<NullTerminated, steps>>

Next ==
    \/ PushBack("a")
    \/ AppendFill("a")
    \/ InsertFill("a")
    \/ Erase("a")
    \/ PopBack("a")
    \/ Clear("a")
    \/ Resize("a")
    \/ Reserve("a")
    \/ ShrinkToFit("a")
    \/ AssignFill("a")
    \/ ReplaceFill("a")
    \/ ReplaceStr("a")
    \/ \E d \in Strings, s \in Strings : MoveAssign(d, s)
    \/ \E d \in Strings, s \in Strings : Swap(d, s)
    \/ \E d \in Strings, s \in Strings : CopyAssign(d, s)
    \/ \E s \in Strings : Destruct(s)

Spec == Init /\ [][Next]_vars

(* ------------------ construction from a string, allocators ------------- *)
\* the memory resources of the arena-backed (pmr) strings
Arenas == {1, 2}

\* the allocators of the same class as al: std::allocator alone, or the arenas
AllocatorsLike(al) == IF al = 0 THEN {0} ELSE Arenas

\* lengths of the first string: one for each tier
AllocInitLens == {0, 8, 300, 20000}

ConstructLens == {3, 300}

\* basic_small_string(const basic_small_string& other [, const Allocator&]):
\* a new string of other.size() bytes, then memcpy of other's bytes
copy_construct(h, f, src_core) ==
    Put(initial_allocate(h, f, size(src_core, h)), 0, Content(src_core, h))

\* string a exists, string b does not yet
AllocInit ==
    /\ NullTerminated \in BOOLEAN
    /\ \E len \in AllocInitLens, al \in {0, 1} :
         LET x == construct_fill(<< >>, "none", len, ChX)
         IN  /\ strs = [s \in Strings |->
                          IF s = "a" THEN [live |-> TRUE, core |-> x.c, alloc |-> al]
                          ELSE [live |-> FALSE, core |-> ZeroCore, alloc |-> al]]
             /\ heap = StampFrom(x.h, 1, al)
             /\ fault = x.f
    /\ steps = 0
    /\ last = NoOp

Constructing(dst) ==
    /\ fault = "none"
    /\ steps < MaxSteps
    /\ ~strs[dst].live
    /\ strs[Other(dst)].live

\* the constructor of dst ran to cell x and left dst with allocator al
ConstructedWith(dst, op, n, arg, x, al) ==
    /\ strs' = [strs EXCEPT ![dst] = [live |-> TRUE, core |-> x.c, alloc |-> al]]
    /\ heap' = Settle(heap, x, al).h
    /\ fault' = Settle(heap, x, al).f
    /\ steps' = steps + 1
    /\ last' = [Before(op, dst, n) EXCEPT !.arg = arg]
    /\ UNCHANGED NullTerminated

Constructed(dst, op, n, x, al) == ConstructedWith(dst, op, n, NoArg, x, al)

\* basic_small_string dst(count, ch, allocator)
ConstructFill(dst) ==
    /\ Constructing(dst)
    /\ \E n \in ConstructLens, al \in AllocatorsLike(strs[Other(dst)].alloc) :
         Constructed(dst, "construct", n, construct_fill(heap, fault, n, ChY), al)

\* basic_small_string dst(src)
CopyConstruct(dst, src) ==
    /\ Constructing(dst)
    /\ Constructed(dst, "copy_construct", 0,
                   copy_construct(heap, fault, strs[src].core), strs[src].alloc)

\* basic_small_string dst(src, allocator): the new string is built with
\* other.get_allocator(); the allocator argument is not used
CopyConstructAlloc(dst, src) ==
    /\ Constructing(dst)
    /\ \E al \in AllocatorsLike(strs[src].alloc) :
         Constructed(dst, "copy_construct_alloc", al,
                     copy_construct(heap, fault, strs[src].core), strs[src].alloc)

\* basic_small_string dst(std::move(src), allocator)
MoveConstructAlloc(dst, src) ==
    /\ Constructing(dst)
    /\ \E al \in AllocatorsLike(strs[src].alloc) :
         /\ strs' = [move_construct(strs, dst, src) EXCEPT ![dst].live = TRUE]
         /\ last' = Before("move_construct_alloc", dst, al)
    /\ steps' = steps + 1
    /\ UNCHANGED <<NullTerminated, heap, fault>>

AllocNext ==
    \/ ConstructFill("b")
    \/ CopyConstruct("b", "a")
    \/ CopyConstructAlloc("b", "a")
    \/ MoveConstructAlloc("b", "a")
    \/ \E d \in Strings, s \in Strings : CopyAssign(d, s)
    \/ \E d \in Strings, s \in Strings : MoveAssign(d, s)
    \/ \E d \in Strings, s \in Strings : Swap(d, s)
    \/ \E s \in Strings : AppendFill(s)
    \/ \E s \in Strings : Reserve(s)
    \/ \E s \in Strings : ShrinkToFit(s)
    \/ \E s \in Strings : Erase(s)
    \/ \E s \in Strings : ReplaceFill(s)
    \/ \E s \in Strings : Destruct(s)

AllocSpec == AllocInit /\ [][AllocNext]_vars

(* ------------------- construction and checked arguments ----------------- *)
\* lengths at and around the tier boundaries
BuildLens == {0, 1, 6, 7, 8, 255, 256, 257, 16383, 16384, 1000000}

BytePatterns == {"zero_first", "zero_middle", "all_zero"}

\* a byte sequence of length len that contains zero bytes
ByteSeq(pat, len) ==
    CASE pat = "zero_first" -> RCat(RFill(0, Min(1, len)), RFill(ChX, len - 1))
      [] pat = "zero_middle" ->
            RCat(RCat(RFill(ChX, len \div 2), RFill(0, Min(1, len - len \div 2))),
                 RFill(ChY, len - len \div 2 - 1))
      [] pat = "all_zero" -> RFill(0, len)

\* the bytes of str before its first zero byte
UpToZero(str) ==
    IF str = << >> \/ str[1][1] = 0 THEN << >> ELSE << str[1] >>

\* faulty variant: the bytes are measured as a C string, up to the first zero
construct_bytes_cstring(h, f, str) ==
    Put(initial_allocate(h, f, RLen(UpToZero(str))), 0, UpToZero(str))

\* basic_small_string(const Char* s, size_t count): a new string of count
\* bytes, then memcpy of the count bytes of s
construct_bytes(h, f, str) ==
    Put(initial_allocate(h, f, RLen(str)), 0, str)

\* basic_small_string(): no allocation, the storage word is zero
default_construct(h, f) == Cell(ZeroCore, h, f)

\* string b is an empty string, string a does not exist yet
BuildInit ==
    /\ NullTerminated \in BOOLEAN
    /\ strs = [s \in Strings |-> [live |-> s = "b", core |-> ZeroCore, alloc |-> 0]]
    /\ heap = << >>
    /\ fault = "none"
    /\ steps = 0
    /\ last = NoOp

\* basic_small_string dst
DefaultConstruct(dst) ==
    /\ Constructing(dst)
    /\ Constructed(dst, "default_construct", 0, default_construct(heap, fault), 0)

\* basic_small_string dst(count, ch) with count at a tier boundary
BuildFill(dst) ==
    /\ Constructing(dst)
    /\ \E n \in BuildLens :
         Constructed(dst, "construct", n, construct_fill(heap, fault, n, ChY), 0)

\* basic_small_string dst(s, count)
BuildBytes(dst) ==
    /\ Constructing(dst)
    /\ \E n \in BuildLens, pat \in BytePatterns :
         ConstructedWith(dst, "construct_bytes", n, [NoArg EXCEPT !.bytes = ByteSeq(pat, n)],
                         construct_bytes(heap, fault, ByteSeq(pat, n)), 0)

\* positions inside and beyond the strings, and the numbers of bytes inserted
InsertAtIndexes == {0, 2, 10, 300}
InsertAtCounts == {0, 1, 5}

\* s.insert(index, count, ch) with any index
InsertFillAt(s) ==
    \E i \in InsertAtIndexes, n \in InsertAtCounts :
        StepWith(s, "insert_at", n, [NoArg EXCEPT !.index = i],
                 insert_fill(CellOf(s), i, n, ChY, FALSE),
                 insert_fill(CellOf(s), i, n, ChY, TRUE))

\* s.insert(index, str, count) with any index
InsertStrAt(s) ==
    \E i \in InsertAtIndexes, n \in InsertAtCounts :
        StepWith(s, "insert_str_at", n, [NoArg EXCEPT !.index = i, !.bytes = RFill(ChY, n)],
                 insert_str(CellOf(s), i, RFill(ChY, n), FALSE),
                 insert_str(CellOf(s), i, RFill(ChY, n), TRUE))

SelfRanges == {<<0, 1>>, <<0, 300>>, <<2, 30000>>}

\* s.append(s)
AppendSelf(s) ==
    Step(s, "append_self", size(strs[s].core, heap),
         append_self(CellOf(s), FALSE), append_self(CellOf(s), TRUE))

\* s.append(s, pos, count)
AppendSelfRange(s) ==
    \E a \in SelfRanges :
        StepWith(s, "append_self_range", a[2], [NoArg EXCEPT !.index = a[1]],
                 append_self_range(CellOf(s), a[1], a[2], FALSE),
                 append_self_range(CellOf(s), a[1], a[2], TRUE))

\* s.append(s.data(), count), count <= s.size()
AppendOwnData(s) ==
    \E n \in InsertAtCounts :
        /\ n <= size(strs[s].core, heap)
        /\ Step(s, "append_own_data", n,
                append_ptr(CellOf(s), data(strs[s].core), n, FALSE),
                append_ptr(CellOf(s), data(strs[s].core), n, TRUE))

\* s.insert(index, s)
InsertSelf(s) ==
    \E i \in InsertAtIndexes :
        StepWith(s, "insert_self", size(strs[s].core, heap), [NoArg EXCEPT !.index = i],
                 insert_self(CellOf(s), i, FALSE), insert_self(CellOf(s), i, TRUE))

\* a view of four different characters
ViewChars == <<3, 4, 5, 6>>
View == [i \in 1..Len(ViewChars) |-> <<ViewChars[i], 1>>]

\* <<pos, count, pos2, count2>>
ReplaceViewArgs == {<<0, 1, 0, 2>>, <<1, 1, 1, 2>>, <<0, 2, 2, 2>>, <<2, 1, 0, 1>>}

\* s.replace(pos, count, view, pos2, count2); the history keeps pos and the
\* characters view[pos2, pos2 + count2) the caller named
ReplaceView(s) ==
    \E a \in ReplaceViewArgs :
        /\ a[1] <= size(strs[s].core, heap)
        /\ StepWith(s, "replace_view", a[2],
                    [NoArg EXCEPT !.index = a[1], !.bytes = RSlice(View, a[3], a[4])],
                    replace_view(CellOf(s), a[1], a[2], View, a[3], a[4]),
                    replace_view(CellOf(s), a[1], a[2], View, a[3], a[4]))

BuildNext ==
    \/ DefaultConstruct("a")
    \/ BuildFill("a")
    \/ BuildBytes("a")
    \/ AppendFill("a")
    \/ Reserve("a")
    \/ InsertFillAt("a")
    \/ InsertStrAt("a")
    \/ AppendSelf("a")
    \/ AppendSelfRange("a")
    \/ AppendOwnData("a")
    \/ InsertSelf("a")
    \/ ReplaceView("a")

BuildSpec == BuildInit /\ [][BuildNext]_vars

(* ------------------------------- properties ---------------------------- *)
Live == {s \in Strings : strs[s].live}

Now(s) == Obs(strs[s].core, heap)

GrowthOps == {"push_back", "append", "insert", "resize_up", "reserve"}

ReducingOps == {"pop_back", "erase", "clear", "resize_down", "replace", "assign",
                "copy_assign"}

\* the capacity of a freshly constructed string of length n
FreshCapacity(n) ==
    LET x == initial_allocate(<< >>, "none", n) IN capacity(x.c, x.h)

\* C1: in every reachable state, size() <= capacity() for every string.
C1_SizeWithinCapacity ==
    \A s \in Live : size(strs[s].core, heap) <= capacity(strs[s].core, heap)

C1_Witness ==
    /\ steps >= 2
    /\ strs["a"].live
    /\ strs["a"].core.flag = kIsShort
    /\ size(strs["a"].core, heap) = capacity(strs["a"].core, heap)
    /\ last.op = "push_back"

\* C2: for the terminated type the byte at data()[size()] is 0 after every
\* operation, for every string (the source of a move included).
C2_TerminatorAfterContent ==
    NullTerminated =>
        \A s \in Live : RAt(Bytes(strs[s].core, heap), size(strs[s].core, heap)) = 0

C2_Witness ==
    /\ NullTerminated
    /\ last.op = "reserve"
    /\ strs[last.s].live
    /\ Now(last.s).ptr # last.pre.ptr
    /\ Now(last.s).size > 0

\* C3: idle_capacity() = capacity() - size() in every reachable state.
C3_IdleIsCapacityMinusSize ==
    \A s \in Live : Now(s).idle = Now(s).cap - Now(s).size

\* C4: a growth operation never lowers the tier of the string it acts on.
C4_TierMonotoneUnderGrowth ==
    (last.op \in GrowthOps /\ ~Stopped(CellOf(last.s))) =>
        Now(last.s).tier >= last.pre.tier

C6_ShrinkKeepsString ==
    last.op = "shrink_to_fit" =>
        /\ Now(last.s).cap <= last.pre.cap
        /\ Now(last.s).size = last.pre.size
        /\ Now(last.s).content = last.pre.content

C6_Witness ==
    /\ last.op = "shrink_to_fit"
    /\ Now(last.s).cap < last.pre.cap
    /\ Now(last.s).size > 0

\* C7 as stated: whenever the selector's minimal buffer for size() is strictly
\* smaller than the current buffer, shrink_to_fit() leaves the string in the
\* minimal tier with the capacity of a fresh string of that length.
C7_ShrinkReachesMinimal ==
    (last.op = "shrink_to_fit"
        /\ calculate_new_buffer_size(last.pre.size).buffer_size < last.pre.buf) =>
        /\ Now(last.s).tier = calculate_new_buffer_size(last.pre.size).core_type
        /\ Now(last.s).cap = FreshCapacity(last.pre.size)

\* C7 amended: shrink_to_fit() compares capacity() with the minimal buffer
\* size; when capacity() is strictly greater the string ends in the minimal
\* tier with the capacity of a fresh string of that length, otherwise the
\* string keeps its buffer.
C7_ShrinkWhenCapacityExceeds ==
    last.op = "shrink_to_fit" =>
        IF last.pre.cap > calculate_new_buffer_size(last.pre.size).buffer_size
        THEN /\ Now(last.s).tier = calculate_new_buffer_size(last.pre.size).core_type
             /\ Now(last.s).cap = FreshCapacity(last.pre.size)
             /\ Now(last.s).buf = calculate_new_buffer_size(last.pre.size).buffer_size
        ELSE /\ Now(last.s).ptr = last.pre.ptr
             /\ Now(last.s).cap = last.pre.cap
             /\ Now(last.s).tier = last.pre.tier

C7_Witness ==
    /\ last.op = "shrink_to_fit"
    /\ last.pre.tier = kIsLong
    /\ Now(last.s).tier = kIsMedian
    /\ Now(last.s).cap = FreshCapacity(last.pre.size)

\* C8: no size-reducing or content-modifying operation lowers the tier.
C8_OnlyShrinkDemotes ==
    last.op \in ReducingOps => Now(last.s).tier >= last.pre.tier

\* C9: a growth operation never lowers capacity().
C9_CapacityMonotoneUnderGrowth ==
    (last.op \in GrowthOps /\ ~Stopped(CellOf(last.s))) =>
        Now(last.s).cap >= last.pre.cap

\* C10: every allocated buffer is freed at most once, a buffer not yet freed
\* is still held by a string, and once all strings are destroyed every buffer
\* has been freed exactly once.
C10_BuffersFreedExactlyOnce ==
    /\ fault # "double_free"
    /\ \A p \in DOMAIN heap :
          /\ heap[p].frees <= 1
          /\ heap[p].live <=> heap[p].frees = 0
          /\ heap[p].live =>
                \E s \in Live : is_external(strs[s].core) /\ strs[s].core.ptr = p
    /\ Live = {} => \A p \in DOMAIN heap : heap[p].frees = 1

C10_Witness ==
    /\ Live = {}
    /\ Len(heap) >= 3
    /\ \A p \in DOMAIN heap : heap[p].frees = 1

CopyOps == {"copy_assign", "copy_construct", "copy_construct_alloc"}

\* the operations that take the other string's storage
TakingOps == {"move_assign", "move_construct_alloc", "swap"}

Holders(p) == {s \in Live : is_external(strs[s].core) /\ strs[s].core.ptr = p}

MoveOps == {"move_assign", "move_construct_alloc"}

\* C12: after a move construction or move assignment the destination is what
\* the source was (tier, size, capacity, data pointer, bytes) and the source is
\* the zeroed, empty Internal string.
C12_MoveTransfers ==
    last.op \in MoveOps =>
        /\ Now(last.s) = last.other
        /\ strs[Other(last.s)].core = ZeroCore
        /\ Now(Other(last.s)).tier = kIsInternal
        /\ Now(Other(last.s)).size = 0

C12_Witness ==
    /\ last.op = "move_assign"
    /\ last.pre.tier = kIsShort
    /\ last.other.tier = kIsMedian
    /\ Now(last.s).size = 300
    /\ is_external(strs[last.s].core)

\* C13: a swap of two strings that hold different arenas fails at the check
\* and exchanges nothing: both strings are as they were.
C13_SwapNeedsSameArena ==
    (last.op = "swap" /\ get_allocator(last.s) # get_allocator(Other(last.s))) =>
        /\ fault = "assert_swap_allocator"
        /\ Now(last.s) = last.pre
        /\ Now(Other(last.s)) = last.other

\* C14: a string built by the allocator-extended copy or move constructor
\* has the allocator that was passed to the constructor.
C14_ConstructorTakesAllocator ==
    last.op \in {"copy_construct_alloc", "move_construct_alloc"} =>
        get_allocator(last.s) = last.n

\* C15: copy assignment and move assignment leave the target's allocator as
\* it was before the assignment.
C15_AssignmentKeepsAllocator ==
    last.op \in {"copy_assign", "move_assign"} => get_allocator(last.s) = last.al

\* the operations that work inside the existing buffer when the result fits
WithinCapacityOps ==
    {"push_back", "append", "insert", "erase", "replace", "resize_up", "resize_down",
     "clear"}

\* C16: data() of a string is the same before and after a push_back, append,
\* insert, erase, replace, resize or clear that left capacity() unchanged.
C16_DataStableWithinCapacity ==
    (last.op \in WithinCapacityOps /\ fault = "none" /\ Now(last.s).cap = last.pre.cap) =>
        Now(last.s).ptr = last.pre.ptr

\* the operations that begin with the growth step allocate_more(extra)
AppendingOps == {"push_back", "append", "insert"}

\* C17: when idle_capacity() >= extra before an append, push_back or insert of
\* extra bytes, the operation allocates and frees nothing, and data(),
\* capacity() and the tier are afterwards what they were before.
C17_NoGrowthWhenIdleSuffices ==
    (last.op \in AppendingOps /\ last.pre.idle >= last.n) =>
        /\ fault = "none"
        /\ Mem(heap) = last.mem
        /\ Now(last.s).ptr = last.pre.ptr
        /\ Now(last.s).cap = last.pre.cap
        /\ Now(last.s).tier = last.pre.tier

\* an append of 300 bytes went into the idle room of an external buffer
C17_Witness ==
    /\ last.op = "append"
    /\ last.n = 300
    /\ last.pre.idle >= last.n
    /\ is_external(strs[last.s].core)
    /\ Now(last.s).size = last.pre.size + 300

\* the capacity of a buffer the selector gives for n bytes: its aligned size
\* less the terminator (Short) or the header with the terminator (Median, Long)
SelectedCapacity(n) ==
    LET t == calculate_new_buffer_size(n)
    IN  t.buffer_size - (IF t.core_type = kIsShort
                         THEN (IF NullTerminated THEN 1 ELSE 0)
                         ELSE median_long_buffer_header_size)

\* C18: reserve(n) with n > capacity() ends with the capacity of the buffer the
\* selector gives for n itself; a push_back, append or insert of more bytes
\* than the idle capacity ends with the capacity of the buffer the selector
\* gives for 1.5 times the new size.
C18_ReserveIsExactGrowthIsNot ==
    /\ (last.op = "reserve" /\ last.n > last.pre.cap) =>
           /\ fault = "none"
           /\ Now(last.s).cap = SelectedCapacity(last.n)
    /\ (last.op \in AppendingOps /\ last.pre.idle < last.n /\ fault = "none") =>
           Now(last.s).cap = SelectedCapacity(((last.pre.size + last.n) * 3) \div 2)

\* reserve(100) on a terminated string of smaller capacity gave capacity 103
C18_Witness ==
    /\ NullTerminated
    /\ last.op = "reserve"
    /\ last.n = 100
    /\ last.pre.cap < 100
    /\ Now(last.s).cap = 103

\* C19: reserve(n) leaves size() and the bytes in [0, size()) as they were,
\* whether it allocates a new buffer or not.
C19_ReserveKeepsString ==
    last.op = "reserve" =>
        /\ fault = "none"
        /\ Now(last.s).size = last.pre.size
        /\ Now(last.s).content = last.pre.content

\* a reserve moved a string of 300 bytes into a new buffer
C19_Witness ==
    /\ last.op = "reserve"
    /\ last.pre.size = 300
    /\ last.n > last.pre.cap
    /\ Now(last.s).ptr # last.pre.ptr
    /\ Now(last.s).size = 300

\* C20: after a.swap(b) each string has the tier, size, capacity, data pointer
\* and content the other had before, and a swap that directly follows a swap
\* leaves both strings as they were before the first one.
C20_SwapExchangesAndRestores ==
    /\ [](last.op = "swap" =>
             /\ fault = "none"
             /\ Now(last.s) = last.other
             /\ Now(Other(last.s)) = last.pre)
    /\ [][(last.op = "swap" /\ last'.op = "swap" /\ steps' = steps + 1) =>
             /\ Obs(strs'[last.s].core, heap') = last.pre
             /\ Obs(strs'[Other(last.s)].core, heap') = last.other]_vars

\* a swap exchanged a Median string of 300 bytes with a string of another tier
C20_Witness ==
    /\ last.op = "swap"
    /\ last.pre.size = 300
    /\ last.other.tier # last.pre.tier
    /\ Now(last.s) = last.other
    /\ Now(Other(last.s)).content = RFill(ChX, 300)

\* the tier the claim names for a string of length len
TierOfLength(len) ==
    IF len <= (IF NullTerminated THEN 6 ELSE 7) THEN kIsInternal
    ELSE IF len <= (IF NullTerminated THEN 255 ELSE 256) THEN kIsShort
    ELSE IF len <= 16383 THEN kIsMedian
    ELSE kIsLong

C22_BytesRoundTrip ==
    last.op = "construct_bytes" =>
        /\ fault = "none"
        /\ Now(last.s).size = last.n
        /\ Now(last.s).content = last.arg.bytes

\* a terminated string was built from 16384 bytes with a zero in the middle
C22_Witness ==
    /\ NullTerminated
    /\ last.op = "construct_bytes"
    /\ last.arg.bytes = ByteSeq("zero_middle", 16384)
    /\ Now(last.s).content = last.arg.bytes
    /\ RAt(Now(last.s).content, 8192) = 0

\* C23: insert(index, count, ch) and insert(index, str, count) with
\* index > size() raise out_of_range, whatever count is, and leave the string
\* as it was.
C23_InsertBeyondSizeRaises ==
    (last.op \in {"insert_at", "insert_str_at"} /\ last.arg.index > last.pre.size) =>
        /\ fault = "out_of_range"
        /\ Now(last.s) = last.pre

\* C24: in every Median string capacity() - size() is at most 16383, the
\* largest value the 14-bit idle field holds.
C24_MedianIdleFitsField ==
    \A s \in Live :
        Now(s).tier = kIsMedian => Now(s).cap - Now(s).size <= 16383

\* numbers of bytes an append or insert may add
GrowthExtras == {1, 6, 300, 10920}

\* C25: when the growth step allocate_more(extra) has returned,
\* idle_capacity() >= extra and capacity() - size() >= extra.
C25_GrowthStepMakesRoom ==
    \A s \in Live, extra \in GrowthExtras, ndebug \in BOOLEAN :
        LET y == allocate_more(CellOf(s), extra, FALSE, ndebug)
        IN  (fault = "none" /\ ~Stopped(y)) =>
                /\ idle_capacity(y.c, y.h) >= extra
                /\ capacity(y.c, y.h) - size(y.c, y.h) >= extra

\* C26: no operation reads a buffer that has been freed, also when its source
\* argument points into the string's own storage and the call reallocates.
C26_NoUseAfterFree == fault # "use_after_free"

\* C27: every external buffer of an arena-backed string is given back to the
\* arena it was allocated from.
C27_FreedThroughOwnArena == fault # "foreign_deallocate"

C29_ReplaceTakesViewAtPos2 ==
    (last.op = "replace_view" /\ fault = "none") =>
        Now(last.s).content =
            RCat(RCat(RTake(last.pre.content, last.arg.index), last.arg.bytes),
                 RDrop(last.pre.content,
                       last.arg.index + Min(last.n, last.pre.size - last.arg.index)))

\* C30: allocate_new_external_buffer is never entered with the tier Internal:
\* neither its Assert(false) nor the unreachable code behind it is reached.
C30_NeverAllocatesInternal ==
    fault \notin {"assert_internal_alloc", "unreachable_internal_alloc"}

\* the run ends only in the ways the code provides for
FaultsKnown == fault \in {"none", "assert_internal_alloc", "unreachable_internal_alloc"}

====
